---- MODULE Spec2Model ----
(***************************************************************************)
(* A model of the TMDB harvesting scripts of this repository:              *)
(*   Code/fetch_movie_ids.py   (ID harvester, session variant)             *)
(*   Code/fetch_module_ids.py  (ID harvester, plain variant)               *)
(*   Code/review_database.py   (review harvester)                          *)
(* Dates are proleptic ordinals (days), as datetime.date.toordinal().      *)
(***************************************************************************)
EXTENDS Integers, Sequences, FiniteSets, TLC

VARIABLES
    variant,        \* the script that runs: "movie" = fetch_movie_ids.py,
                    \* "module" = fetch_module_ids.py, "reviews" = review_database.py
    api,            \* the range of answers the remote API gives in this run
    \* ---- generate_date_range (locals of one call)
    years, chunk_size, end_date, cutoff_date, date_ranges, gpc,
    \* ---- fetch_movie_ids: one call stack per submitted window
    stack,          \* [item -> Seq(frame)], frame 1 is the outermost call
    future,         \* [item -> [st, val]] the executor's future of the item
    \* ---- get_all_id
    max_workers, movie_ids, opc, done_order,
    \* ---- fetch_reviews / get_reviews_map
    id_list, retries, backoff, rw, reviews_map, rpc,
    \* ---- the files of the working directory and the calls that touch them
    id_file,        \* movie_id.txt: [exists, text], text a sequence of characters
    data_dir,       \* whether the directory ../data exists
    csv_file,       \* ../data/movie_reviews.csv: [exists, rows]
    wpc,            \* write_movie_ids / read_movie_ids
    spc             \* save_reviews_to_csv

dvars == <<years, chunk_size, end_date, cutoff_date, date_ranges, gpc>>
fvars == <<stack, future>>
ovars == <<max_workers, movie_ids, opc, done_order>>
rvars == <<id_list, retries, backoff, rw, reviews_map, rpc>>
iovars == <<id_file, data_dir, csv_file, wpc, spc>>
vars  == <<variant, api, dvars, fvars, ovars, rvars, iovars>>

(***************************************************************************)
(* Bounds of the model                                                     *)
(***************************************************************************)
MaxYears == 12       \* generate_date_range alone: years in 1..MaxYears
MaxChunk == 9        \* generate_date_range alone: chunk in 1..MaxChunk
MaxRetries == 4      \* fetch_reviews alone: retries in 0..MaxRetries
MaxBackoff == 2      \* fetch_reviews alone: backoff in 0..MaxBackoff
MaxIdList == 2       \* get_reviews_map: the identifier list has 0..MaxIdList entries
MaxMovieId == 2      \* identifiers are 1..MaxMovieId
MaxPool == 2         \* max_workers in 1..MaxPool
MaxDepth == 1        \* SpecBisect: bisections nest at most MaxDepth deep
MaxPages == 3        \* SpecFetch: total_pages in 1..MaxPages
MaxSpanYears == 2    \* get_all_id: years in 1..MaxSpanYears

(***************************************************************************)
(* Program constants                                                       *)
(***************************************************************************)
Today       == 739926    \* datetime.date.today() as an ordinal
DaysPerYear == 365       \* the literal 365 of timedelta(days=... * 365)

Absent == -1             \* a key the JSON object does not have

(***************************************************************************)
(* generate_date_range                                                     *)
(***************************************************************************)
\* A start clamped at the cutoff (not what the code does).
ChunkStartClamped(e, c) ==
    IF e - c * DaysPerYear < cutoff_date THEN cutoff_date ELSE e - c * DaysPerYear

\* start_date = end_date - timedelta(days=chunk_size * 365)
ChunkStart(e, c) == e - c * DaysPerYear

\* cutoff_date = end_date - timedelta(days=years*365)
Cutoff(e, y) == e - y * DaysPerYear

\* A gap of one day between consecutive windows (not what the code does).
GdrIterateGap ==
    /\ gpc = "loop"
    /\ end_date > cutoff_date
    /\ date_ranges' = Append(date_ranges, <<ChunkStart(end_date, chunk_size), end_date>>)
    /\ end_date' = ChunkStart(end_date, chunk_size) - 1
    /\ UNCHANGED <<years, chunk_size, cutoff_date, gpc>>

\* One iteration of `while end_date > cutoff_date`.
GdrIterate ==
    /\ gpc = "loop"
    /\ end_date > cutoff_date
    /\ date_ranges' = Append(date_ranges, <<ChunkStart(end_date, chunk_size), end_date>>)
    /\ end_date' = ChunkStart(end_date, chunk_size)
    /\ UNCHANGED <<years, chunk_size, cutoff_date, gpc>>

\* The loop condition fails: return date_ranges.
GdrReturn ==
    /\ gpc = "loop"
    /\ ~(end_date > cutoff_date)
    /\ gpc' = "done"
    /\ UNCHANGED <<years, chunk_size, end_date, cutoff_date, date_ranges>>

\* Entry of generate_date_range(y, c): the state after lines 32-36.
GdrEntry(y, c) ==
    /\ years = y
    /\ chunk_size = c
    /\ end_date = Today
    /\ cutoff_date = Cutoff(Today, y)
    /\ date_ranges = <<>>
    /\ gpc = "loop"

IdleFetch ==
    /\ stack = <<>>
    /\ future = <<>>

IdleOrch ==
    /\ max_workers = 0
    /\ movie_ids = <<>>
    /\ opc = "idle"
    /\ done_order = <<>>

IdleReviews ==
    /\ id_list = <<>>
    /\ retries = 0
    /\ backoff = 0
    /\ rw = <<>>
    /\ reviews_map = <<>>
    /\ rpc = "idle"

\* no file of the scripts exists and no call touches one
NoFile == [exists |-> FALSE, text |-> <<>>, rows |-> <<>>]

IdleIO ==
    /\ id_file = NoFile
    /\ data_dir = FALSE
    /\ csv_file = NoFile
    /\ wpc = "idle"
    /\ spc = "idle"

\* no answers at all; history tells whether a call of fetch_reviews keeps
\* the record of its requests and waits (auxiliary, read by no code path)
NoApi == [tps |-> {}, trs |-> {}, results |-> {}, depth |-> 0, bodies |-> {},
          history |-> FALSE]

(***************************************************************************)
(* fetch_reviews                                                           *)
(***************************************************************************)
\* JSON values of a review object: a key is absent, null (None) or a value.
Missing == "absent"
Null    == "null"
NA      == "NA"
Texts   == {"good"}
Ratings == {"7"}

\* The review objects the API can list.  rating is read only when
\* author_details (ad) is an object.
ApiReviews ==
    [content : {Missing, Null} \cup Texts, ad : {Missing, Null}, rating : {Missing}]
    \cup [content : {Missing, Null} \cup Texts, ad : {"obj"},
          rating : {Missing, Null} \cup Ratings]

\* dict.get(key, "NA"): the default only replaces an absent key.
GetOrNA(v) == IF v = Missing THEN NA ELSE v

\* [{"content": "NA", "rating": "NA"}]
Placeholder == <<[content |-> NA, rating |-> NA]>>

\* no response body (the body of a response without a results key)
NoBody == [results |-> Missing, items |-> <<>>]

\* review.get("author_details", {}).get("rating", "NA") on None raises
\* AttributeError; iterating data.get('results', []) == None raises TypeError.
BodyRaises(body) ==
    \/ body.results = Null
    \/ /\ body.results = "list"
       /\ \E k \in 1..Len(body.items) : body.items[k].ad = Null

\* one element of the list comprehension of lines 54-58
MapReview(r) ==
    [content |-> GetOrNA(r.content),
     rating  |-> IF r.ad = Missing THEN NA ELSE GetOrNA(r.rating)]

\* The comprehension without the `or` fallback (not what the code does).
ReviewsOfNoFallback(body) ==
    IF body.results = Missing THEN <<>>
    ELSE [k \in 1..Len(body.items) |-> MapReview(body.items[k])]

\* lines 51-59: the mapped list, `or` the placeholder when it is empty
ReviewsOf(body) ==
    LET reviews_list == IF body.results = Missing THEN <<>> ELSE body.items
        mapped == [k \in 1..Len(reviews_list) |-> MapReview(reviews_list[k])]
    IN  IF mapped = <<>> THEN Placeholder ELSE mapped

\* A ceiling that lets one attempt too many through (not what the code does).
MoreAttemptsOffByOne(a, r) == a <= r

\* for attempt in range(retries)
MoreAttempts(a, r) == a < r

\* A wait that shrinks with the attempt index (not what the code does).
RateLimitWaitShrinking(b, a) == b \div (a + 1)

\* wait_time = backoff * (attempt + 1)
RateLimitWait(b, a) == b * (a + 1)

\* time.sleep(backoff) of the except clause
ExceptionWait(b, a) == b

Running(i) == rw[i].pc = "running" /\ MoreAttempts(rw[i].attempt, retries)

\* the record of a call after one more request (kept when api.history)
Logged(c, kind, wait) ==
    IF ~api.history THEN c
    ELSE [c EXCEPT !.requests = @ + 1,
                   !.log = IF kind \in {"429", "exc"}
                           THEN Append(@, [attempt |-> c.attempt, kind |-> kind,
                                           wait |-> wait])
                           ELSE @]

\* status 200 and a body the comprehension maps: return (movie_id, reviews)
AttemptSuccess(i) ==
    /\ Running(i)
    /\ \E body \in api.bodies :
         /\ ~BodyRaises(body)
         /\ rw' = [rw EXCEPT ![i] = [Logged(@, "200", 0) EXCEPT
                                              !.pc = "returned",
                                              !.last = "200",
                                              !.body = body,
                                              !.result = ReviewsOf(body)]]
    /\ UNCHANGED <<id_list, retries, backoff, reviews_map, rpc>>

\* status 429: sleep backoff * (attempt + 1), continue
AttemptRateLimited(i) ==
    /\ Running(i)
    /\ rw' = [rw EXCEPT ![i] =
                [Logged(@, "429", RateLimitWait(backoff, rw[i].attempt)) EXCEPT
                    !.last = "429",
                    !.attempt = @ + 1]]
    /\ UNCHANGED <<id_list, retries, backoff, reviews_map, rpc>>

\* An other status that is retried like a rate limit (not what the code does).
AttemptOtherStatusRetried(i) ==
    /\ Running(i)
    /\ rw' = [rw EXCEPT ![i] = [Logged(@, "other", 0) EXCEPT
                                          !.last = "other",
                                          !.attempt = @ + 1]]
    /\ UNCHANGED <<id_list, retries, backoff, reviews_map, rpc>>

\* any other status: return the placeholder at once (lines 65-67)
AttemptOtherStatus(i) ==
    /\ Running(i)
    /\ rw' = [rw EXCEPT ![i] = [Logged(@, "other", 0) EXCEPT
                                          !.pc = "returned",
                                          !.last = "other",
                                          !.result = Placeholder]]
    /\ UNCHANGED <<id_list, retries, backoff, reviews_map, rpc>>

\* requests.get raises (no body), or a 200 body makes the comprehension
\* raise: the except clause sleeps backoff and the loop goes on (lines
\* 69-72).  The body is remembered only in the record of api.history.
AttemptException(i) ==
    /\ Running(i)
    /\ \E body \in {NoBody} \cup {b \in api.bodies : BodyRaises(b)} :
         rw' = [rw EXCEPT ![i] =
                [Logged(@, "exc", ExceptionWait(backoff, rw[i].attempt)) EXCEPT
                    !.last = "exc",
                    !.attempt = @ + 1,
                    !.body = IF api.history THEN body ELSE @]]
    /\ UNCHANGED <<id_list, retries, backoff, reviews_map, rpc>>

\* the for loop is exhausted: return the placeholder (line 73)
AttemptsExhausted(i) ==
    /\ rw[i].pc = "running"
    /\ ~MoreAttempts(rw[i].attempt, retries)
    /\ rw' = [rw EXCEPT ![i] = [@ EXCEPT !.pc = "returned", !.result = Placeholder]]
    /\ UNCHANGED <<id_list, retries, backoff, reviews_map, rpc>>

\* the locals of a call of fetch_reviews that has not issued a request yet
NewReviewCall(pc) ==
    [pc |-> pc, attempt |-> 0, requests |-> 0, last |-> "none", log |-> <<>>,
     body |-> NoBody, result |-> <<>>, taken |-> FALSE]

RECURSIVE SeqsUpTo(_, _)
\* all sequences over S of length 0..n
SeqsUpTo(S, n) ==
    IF n = 0 THEN {<<>>}
    ELSE LET shorter == SeqsUpTo(S, n - 1)
         IN  shorter \cup {Append(q, x) : q \in shorter, x \in S}

\* a few 200 bodies: no results key, an empty list, one review without
\* author_details, two reviews, a null author_details
FewBodies ==
    {[results |-> Missing, items |-> <<>>],
     [results |-> "list", items |-> <<>>],
     [results |-> "list", items |-> <<[content |-> "good", ad |-> Missing, rating |-> Missing]>>],
     [results |-> "list", items |-> <<[content |-> "good", ad |-> "obj", rating |-> "7"],
                                      [content |-> Missing, ad |-> "obj", rating |-> Missing]>>],
     [results |-> "list", items |-> <<[content |-> "good", ad |-> Null, rating |-> Missing]>>]}

DefaultRetries == 3      \* def fetch_reviews(movie_id, retries=3, backoff=2)
DefaultBackoff == 2

\* One call fetch_reviews(movie_id, retries, backoff), about to enter the loop.
InitReviewCall ==
    /\ variant = "reviews"
    /\ api = [NoApi EXCEPT !.bodies = FewBodies, !.history = TRUE]
    /\ \E y \in {1} : GdrEntry(y, 1)
    /\ IdleIO
    /\ IdleFetch /\ IdleOrch
    /\ id_list \in {<<m>> : m \in 1..MaxMovieId}
    /\ retries \in 0..MaxRetries
    /\ backoff \in 0..MaxBackoff
    /\ rw = <<NewReviewCall("running")>>
    /\ reviews_map = <<>>
    /\ rpc = "idle"

FetchReviewsStep(i) ==
    \/ AttemptSuccess(i)
    \/ AttemptRateLimited(i)
    \/ AttemptOtherStatus(i)
    \/ AttemptException(i)
    \/ AttemptsExhausted(i)

NextReviewCall ==
    \/ \E i \in DOMAIN rw : AttemptSuccess(i) /\ UNCHANGED <<variant, api, iovars, dvars, fvars, ovars>>
    \/ \E i \in DOMAIN rw : AttemptRateLimited(i) /\ UNCHANGED <<variant, api, iovars, dvars, fvars, ovars>>
    \/ \E i \in DOMAIN rw : AttemptOtherStatus(i) /\ UNCHANGED <<variant, api, iovars, dvars, fvars, ovars>>
    \/ \E i \in DOMAIN rw : AttemptException(i) /\ UNCHANGED <<variant, api, iovars, dvars, fvars, ovars>>
    \/ \E i \in DOMAIN rw : AttemptsExhausted(i) /\ UNCHANGED <<variant, api, iovars, dvars, fvars, ovars>>

SpecReviewCall == InitReviewCall /\ [][NextReviewCall]_vars

\* C4: one call of fetch_reviews never issues more HTTP requests than
\* `retries`, and after a 429 on the attempt with 0-based index a it waits
\* backoff*(a+1).
C4_RetryCeiling ==
    \A i \in DOMAIN rw :
        /\ rw[i].requests <= retries
        /\ \A k \in 1..Len(rw[i].log) :
              /\ rw[i].log[k].attempt = k - 1
              /\ rw[i].log[k].kind = "429" =>
                     rw[i].log[k].wait = backoff * (rw[i].log[k].attempt + 1)

\* The ceiling is reached by a mix of exceptions and rate limits, the last
\* attempt being rate-limited.
C4_Witness ==
    \E i \in DOMAIN rw :
        /\ retries = 3 /\ backoff = 2
        /\ rw[i].pc = "returned"
        /\ rw[i].requests = retries
        /\ Len(rw[i].log) = 3
        /\ rw[i].log[1].kind = "exc"
        /\ rw[i].log[3].kind = "429" /\ rw[i].log[3].wait = 6

\* the waits of a call that are followed by another attempt
WaitsBeforeAttempts(i) == {k \in 1..Len(rw[i].log) : k < retries}

\* C5 as stated: within one call the wait that precedes attempt k is
\* non-decreasing in k, for every mix of rate limits and exceptions.
C5_Original ==
    \A i \in DOMAIN rw :
        \A j, k \in WaitsBeforeAttempts(i) :
            j < k => rw[i].log[j].wait <= rw[i].log[k].wait

\* C5 amended: the waits after rate-limit responses are non-decreasing in the
\* attempt index, every wait is at least backoff, and with a ceiling of at
\* most 3 attempts the wait that precedes attempt k is non-decreasing in k.
C5_Amended ==
    \A i \in DOMAIN rw :
        /\ \A j, k \in 1..Len(rw[i].log) :
              (j < k /\ rw[i].log[j].kind = "429" /\ rw[i].log[k].kind = "429")
                  => rw[i].log[j].wait <= rw[i].log[k].wait
        /\ \A k \in 1..Len(rw[i].log) : rw[i].log[k].wait >= backoff
        /\ retries <= DefaultRetries =>
              \A j, k \in WaitsBeforeAttempts(i) :
                  j < k => rw[i].log[j].wait <= rw[i].log[k].wait

\* Two rate-limited attempts with growing waits, each followed by an attempt.
C5_Witness ==
    \E i \in DOMAIN rw :
        /\ retries = DefaultRetries /\ backoff = 2
        /\ Len(rw[i].log) = 2 /\ rw[i].requests = 3
        /\ rw[i].log[1].kind = "429" /\ rw[i].log[2].kind = "429"
        /\ rw[i].log[1].wait < rw[i].log[2].wait

AllAttempts(i, kinds) ==
    /\ Len(rw[i].log) = retries
    /\ \A k \in 1..Len(rw[i].log) : rw[i].log[k].kind \in kinds

\* C6 as stated: the placeholder is returned when every attempt was
\* rate-limited, when a status other than 200 and 429 came (at once), and
\* when a request raised an exception.
C6_Original ==
    \A i \in DOMAIN rw :
        /\ (rw[i].pc = "returned" /\ AllAttempts(i, {"429"})) => rw[i].result = Placeholder
        /\ rw[i].last = "other" => (rw[i].pc = "returned" /\ rw[i].result = Placeholder)
        /\ (rw[i].pc = "returned" /\ \E k \in 1..Len(rw[i].log) : rw[i].log[k].kind = "exc")
              => rw[i].result = Placeholder

\* C6 amended: the placeholder is returned when every attempt up to the
\* ceiling failed with a rate limit or an exception, and at once when a
\* status other than 200 and 429 came; an exception alone only makes the
\* call go on to its next attempt.
C6_Amended ==
    \A i \in DOMAIN rw :
        /\ (rw[i].pc = "returned" /\ AllAttempts(i, {"429", "exc"}))
              => (rw[i].result = Placeholder /\ rw[i].requests = retries)
        /\ rw[i].last = "other" => (rw[i].pc = "returned" /\ rw[i].result = Placeholder)
        /\ (rw[i].last = "exc" /\ rw[i].attempt < retries) => rw[i].pc = "running"

\* An other status after a rate limit and an exception ends the call with
\* the placeholder.
C6_Witness ==
    \E i \in DOMAIN rw :
        /\ rw[i].pc = "returned" /\ rw[i].last = "other"
        /\ rw[i].requests = 3
        /\ Len(rw[i].log) = 2
        /\ rw[i].log[1].kind = "429" /\ rw[i].log[2].kind = "exc"
        /\ rw[i].result = Placeholder

(***************************************************************************)
(* get_reviews_map                                                         *)
(***************************************************************************)
\* get_reviews_map(movie_ids, max_workers) after every identifier was
\* submitted (lines 79-83); fetch_reviews runs with its default arguments.
InitReviewsMap ==
    /\ variant = "reviews"
    /\ api = [NoApi EXCEPT !.bodies = FewBodies]
    /\ \E y \in {1} : GdrEntry(y, 1)
    /\ IdleIO
    /\ IdleFetch
    /\ movie_ids = <<>> /\ opc = "idle" /\ done_order = <<>>
    /\ max_workers \in 1..MaxPool
    /\ id_list \in SeqsUpTo(1..MaxMovieId, MaxIdList)
    /\ retries = DefaultRetries
    /\ backoff = DefaultBackoff
    /\ rw = [i \in 1..Len(id_list) |-> NewReviewCall("queued")]
    /\ reviews_map = <<>>
    /\ rpc = "collect"

\* A pool thread takes the oldest queued work item.
ReviewStart(i) ==
    /\ rw[i].pc = "queued"
    /\ \A j \in 1..(i - 1) : rw[j].pc # "queued"
    /\ Cardinality({j \in DOMAIN rw : rw[j].pc = "running"}) < max_workers
    /\ rw' = [rw EXCEPT ![i].pc = "running"]
    /\ UNCHANGED <<id_list, retries, backoff, reviews_map, rpc>>

\* reviews_map[movie_id] = v
MapPut(m, k, v) == [x \in DOMAIN m \cup {k} |-> IF x = k THEN v ELSE m[x]]

\* One iteration of the loop over as_completed(futures), lines 85-91; the
\* finished call's locals are gone once its future has been read.
CollectReview(i) ==
    /\ rpc = "collect"
    /\ rw[i].pc \in {"returned", "raised"}
    /\ ~rw[i].taken
    /\ reviews_map' = MapPut(reviews_map, id_list[i],
                             IF rw[i].pc = "returned" THEN rw[i].result ELSE Placeholder)
    /\ rw' = [rw EXCEPT ![i] = [NewReviewCall("collected") EXCEPT !.taken = TRUE]]
    /\ UNCHANGED <<id_list, retries, backoff, rpc>>

\* as_completed is exhausted: return reviews_map (line 93)
ReturnReviewsMap ==
    /\ rpc = "collect"
    /\ \A i \in DOMAIN rw : rw[i].taken
    /\ rpc' = "done"
    /\ UNCHANGED <<id_list, retries, backoff, rw, reviews_map>>

NextReviewsMap ==
    \/ \E i \in DOMAIN rw : ReviewStart(i) /\ UNCHANGED <<variant, api, iovars, dvars, fvars, ovars>>
    \/ \E i \in DOMAIN rw : AttemptSuccess(i) /\ UNCHANGED <<variant, api, iovars, dvars, fvars, ovars>>
    \/ \E i \in DOMAIN rw : AttemptRateLimited(i) /\ UNCHANGED <<variant, api, iovars, dvars, fvars, ovars>>
    \/ \E i \in DOMAIN rw : AttemptOtherStatus(i) /\ UNCHANGED <<variant, api, iovars, dvars, fvars, ovars>>
    \/ \E i \in DOMAIN rw : AttemptException(i) /\ UNCHANGED <<variant, api, iovars, dvars, fvars, ovars>>
    \/ \E i \in DOMAIN rw : AttemptsExhausted(i) /\ UNCHANGED <<variant, api, iovars, dvars, fvars, ovars>>
    \/ \E i \in DOMAIN rw : CollectReview(i) /\ UNCHANGED <<variant, api, iovars, dvars, fvars, ovars>>
    \/ ReturnReviewsMap /\ UNCHANGED <<variant, api, iovars, dvars, fvars, ovars>>

SpecReviewsMap == InitReviewsMap /\ [][NextReviewsMap]_vars

ZeroReviews(body) == body.results = Missing \/ (body.results = "list" /\ body.items = <<>>)

\* C3: fetch_reviews never raises and returns a non-empty list, exactly the
\* placeholder when the API answered 200 with zero reviews; after
\* get_reviews_map every identifier of the input list is a key of the map
\* with a non-empty list.
C3_EveryIdHasAReview ==
    /\ \A i \in DOMAIN rw :
          /\ rw[i].pc # "raised"
          /\ rw[i].pc = "returned" =>
                /\ Len(rw[i].result) >= 1
                /\ (rw[i].last = "200" /\ ZeroReviews(rw[i].body))
                       => rw[i].result = Placeholder
    /\ rpc = "done" =>
          \A i \in DOMAIN id_list :
              /\ id_list[i] \in DOMAIN reviews_map
              /\ Len(reviews_map[id_list[i]]) >= 1

\* One identifier's two reviews are in the map; the call for the other got
\* 200 with zero reviews after a rate limit and returned the placeholder,
\* which the orchestrator collects next.
C3_Witness ==
    /\ rpc = "collect"
    /\ \E i, j \in DOMAIN rw :
          /\ id_list[i] # id_list[j]
          /\ rw[i].pc = "returned" /\ ~rw[i].taken
          /\ rw[i].last = "200" /\ ZeroReviews(rw[i].body) /\ rw[i].attempt = 1
          /\ rw[i].result = Placeholder
          /\ rw[j].taken
          /\ id_list[j] \in DOMAIN reviews_map
          /\ Len(reviews_map[id_list[j]]) = 2

(***************************************************************************)
(* fetch_movie_ids                                                         *)
(***************************************************************************)
MovieThreshold  == 1000  \* data['total_ranges'] >= 1000 (fetch_movie_ids.py)
ModuleThreshold == 500   \* data['total_ranges'] >= 500  (fetch_module_ids.py)

Threshold == IF variant = "movie" THEN MovieThreshold ELSE ModuleThreshold

\* "total_ranges" in data and data['total_ranges'] >= threshold
Oversized(data) == data.total_ranges # Absent /\ data.total_ranges >= Threshold

\* mid_date = start_date + datetime.timedelta(days=365)
MidDate(start) == start + DaysPerYear

\* data.get('total_pages', 1)
TotalPagesOf(data) == IF data.total_pages = Absent THEN 1 ELSE data.total_pages

\* A test that lets one page too many through (not what the code does).
IsLastPageOffByOne(page, data) == page > TotalPagesOf(data)

\* if page >= data.get('total_pages', 1): break
IsLastPage(page, data) == page >= TotalPagesOf(data)

\* if "results" in data: movie_ids.extend(movie['id'] for movie in data['results'])
Extend(ids, data) == IF data.results = "absent" THEN ids ELSE ids \o data.ids

\* A split that keeps the identifiers of the earlier pages (not what the code does).
SplitResultKeepsPartial(partial, first, second) == partial \o first \o second

\* return fetch_movie_ids(start, mid) + fetch_movie_ids(mid, end)
SplitResult(partial, first, second) == first \o second

\* A failure that drops what was accumulated (not what the code does).
FailureResultEmpty(ids) == <<>>

\* except RequestException: break; return movie_ids
FailureResult(ids) == ids

\* the locals of fetch_movie_ids(s, e) before its first request
NewFrame(s, e) ==
    [start |-> s, end |-> e, page |-> 1, movie_ids |-> <<>>, pc |-> "loop",
     why |-> "none", reqs |-> <<>>, resps |-> <<>>, subs |-> <<>>, subrets |-> <<>>,
     ret |-> <<>>]

\* The answers the API can give to the request of one page; a well-formed
\* listing of page p is the single identifier p.
Responses(page) ==
    {[total_ranges |-> tr, results |-> r, ids |-> IF r = "ok" THEN <<page>> ELSE <<>>,
      total_pages |-> tp] :
        tr \in api.trs, r \in api.results, tp \in api.tps}

Depth(w) == Len(stack[w])
Top(w) == stack[w][Depth(w)]
InLoop(w) == Depth(w) >= 1 /\ Top(w).pc = "loop"
SetTop(w, f) == [stack EXCEPT ![w][Depth(w)] = f]

\* session.get raises, or raise_for_status raises on a 4xx/5xx status: the
\* except clause breaks out of the loop and the call returns movie_ids.
PageFails(w) ==
    /\ InLoop(w)
    /\ stack' = SetTop(w, [Top(w) EXCEPT
                            !.reqs = Append(@, Top(w).page),
                            !.pc = "ret",
                            !.why = "failed",
                            !.ret = FailureResult(Top(w).movie_ids)])
    /\ UNCHANGED future

\* A result without 'id' makes movie['id'] raise KeyError, which is no
\* RequestException: no frame catches it and the worker's future fails.
PageRaises(w) ==
    /\ InLoop(w)
    /\ \E data \in Responses(Top(w).page) :
         /\ ~Oversized(data)
         /\ data.results = "noid"
    /\ stack' = [stack EXCEPT ![w] = <<>>]
    /\ future' = [future EXCEPT ![w] = [st |-> "raised", val |-> <<>>]]

\* The response carries the indicator: call fetch_movie_ids(start, mid).
PageOversized(w) ==
    /\ InLoop(w)
    /\ Depth(w) <= api.depth
    /\ \E data \in Responses(Top(w).page) :
         /\ Oversized(data)
         /\ LET f == Top(w)
                mid == MidDate(f.start)
            IN  stack' = [stack EXCEPT ![w] =
                    Append([stack[w] EXCEPT ![Depth(w)] =
                               [f EXCEPT !.reqs = Append(@, f.page),
                                         !.resps = <<>>,
                                         !.pc = "call1",
                                         !.why = "split",
                                         !.subs = <<<<f.start, mid>>>>]],
                           NewFrame(f.start, mid))]
    /\ UNCHANGED future

\* An ordinary page: extend movie_ids, then break or go to the next page.
PageResults(w) ==
    /\ InLoop(w)
    /\ \E data \in Responses(Top(w).page) :
         /\ ~Oversized(data)
         /\ data.results # "noid"
         /\ LET f == Top(w)
                ids == Extend(f.movie_ids, data)
                g == [f EXCEPT !.reqs = Append(@, f.page),
                               !.resps = Append(@, [ids |-> IF data.results = "absent"
                                                             THEN <<>> ELSE data.ids,
                                                    total_pages |-> data.total_pages]),
                               !.movie_ids = ids]
            IN  stack' = SetTop(w,
                    IF IsLastPage(f.page, data)
                    THEN [g EXCEPT !.pc = "ret", !.why = "last_page", !.ret = ids]
                    ELSE [g EXCEPT !.page = @ + 1])
    /\ UNCHANGED future

\* A call returns: to the executor (outermost call), or to the caller, which
\* then issues its second sub-fetch or adds the two results.
Return(w) ==
    /\ Depth(w) >= 1
    /\ Top(w).pc = "ret"
    /\ IF Depth(w) = 1
       THEN /\ stack' = [stack EXCEPT ![w] = <<>>]
            /\ future' = [future EXCEPT ![w] = [st |-> "returned", val |-> Top(w).ret]]
       ELSE LET caller == stack[w][Depth(w) - 1]
                rest == SubSeq(stack[w], 1, Depth(w) - 2)
                mid == MidDate(caller.start)
            IN  /\ UNCHANGED future
                /\ IF caller.pc = "call1"
                   THEN stack' = [stack EXCEPT ![w] =
                            rest \o <<[caller EXCEPT
                                         !.pc = "call2",
                                         !.subrets = <<Top(w).ret>>,
                                         !.subs = Append(@, <<mid, caller.end>>)],
                                      NewFrame(mid, caller.end)>>]
                   ELSE stack' = [stack EXCEPT ![w] =
                            Append(rest, [caller EXCEPT
                                         !.pc = "ret",
                                         !.subrets = Append(@, Top(w).ret),
                                         !.ret = SplitResult(caller.movie_ids,
                                                     caller.subrets[1], Top(w).ret)])]

DefaultChunkMovie  == 4  \* get_all_id(years=20, chunk_size=4, ...)
DefaultChunkModule == 2  \* get_all_id(years=20, chunk_size=2, ...)

DefaultChunk == IF variant = "movie" THEN DefaultChunkMovie ELSE DefaultChunkModule

\* One call fetch_movie_ids(start, end), run by one worker, on the newest
\* window of generate_date_range with the script's default chunk.
FetchCall ==
    /\ variant \in {"movie", "module"}
    /\ \E y \in {1} : GdrEntry(y, 1)
    /\ IdleIO
    /\ IdleOrch /\ IdleReviews
    /\ stack = <<<<NewFrame(ChunkStart(Today, DefaultChunk), Today)>>>>
    /\ future = <<[st |-> "running", val |-> <<>>]>>

\* The API reports up to MaxPages pages and lets a window be bisected once.
InitFetch ==
    /\ FetchCall
    /\ api = [NoApi EXCEPT !.tps = {Absent} \cup 1..MaxPages,
                           !.trs = {Absent, Threshold - 1, Threshold},
                           !.results = {"absent", "ok", "noid"},
                           !.depth = 1]

\* The API reports up to two pages and bisections nest MaxDepth deep.
InitBisect ==
    /\ FetchCall
    /\ api = [NoApi EXCEPT !.tps = {Absent, 1, 2},
                           !.trs = {Absent, Threshold - 1, Threshold},
                           !.results = {"absent", "ok", "noid"},
                           !.depth = MaxDepth]

NextFetch ==
    \/ \E w \in DOMAIN stack : PageFails(w) /\ UNCHANGED <<variant, api, iovars, dvars, ovars, rvars>>
    \/ \E w \in DOMAIN stack : PageRaises(w) /\ UNCHANGED <<variant, api, iovars, dvars, ovars, rvars>>
    \/ \E w \in DOMAIN stack : PageOversized(w) /\ UNCHANGED <<variant, api, iovars, dvars, ovars, rvars>>
    \/ \E w \in DOMAIN stack : PageResults(w) /\ UNCHANGED <<variant, api, iovars, dvars, ovars, rvars>>
    \/ \E w \in DOMAIN stack : Return(w) /\ UNCHANGED <<variant, api, iovars, dvars, ovars, rvars>>

SpecFetch == InitFetch /\ [][NextFetch]_vars

SpecBisect == InitBisect /\ [][NextFetch]_vars

RECURSIVE IdsOf(_)
\* the identifiers of a sequence of received pages, in page order
IdsOf(resps) ==
    IF resps = <<>> THEN <<>> ELSE resps[1].ids \o IdsOf(Tail(resps))

\* C1: a call that saw the oversized indicator issues exactly the sub-fetches
\* (start, start+365) and then (start+365, end), and returns the result of
\* the first followed by the result of the second, without the identifiers
\* of its own earlier pages and without removing duplicates.
C1_SplitIsConcatenation ==
    \A w \in DOMAIN stack : \A k \in 1..Len(stack[w]) :
        LET f == stack[w][k] IN
        f.why = "split" =>
            /\ f.pc \in {"call1", "call2", "ret"}
            /\ Len(f.subs) = (IF f.pc = "call1" THEN 1 ELSE 2)
            /\ Len(f.subrets) = (IF f.pc = "call1" THEN 0 ELSE IF f.pc = "call2" THEN 1 ELSE 2)
            /\ \A n \in 1..Len(f.subs) :
                  f.subs[n] = (IF n = 1 THEN <<f.start, f.start + 365>>
                                        ELSE <<f.start + 365, f.end>>)
            /\ f.pc \in {"call1", "call2"} =>
                  /\ k < Len(stack[w])
                  /\ <<stack[w][k+1].start, stack[w][k+1].end>> = f.subs[Len(f.subs)]
            /\ f.pc = "ret" =>
                  /\ f.ret = f.subrets[1] \o f.subrets[2]
                  /\ Len(f.ret) = Len(f.subrets[1]) + Len(f.subrets[2])

\* The indicator came on page 2, after page 1 had given an identifier; both
\* sub-fetches returned identifier 1, and the call returns it twice.
C1_Witness ==
    \E w \in DOMAIN stack :
        /\ Len(stack[w]) = 1
        /\ stack[w][1].why = "split" /\ stack[w][1].pc = "ret"
        /\ stack[w][1].movie_ids = <<1>>
        /\ Len(stack[w][1].reqs) = 2
        /\ stack[w][1].subrets = << <<1, 2>>, <<1>> >>
        /\ stack[w][1].ret = <<1, 2, 1>>

\* C7: when the request of page k fails, the call stops without retrying and
\* without raising, and returns exactly the identifiers of pages 1..k-1.
C7_FailureKeepsPartial ==
    \A w \in DOMAIN stack : \A k \in 1..Len(stack[w]) :
        LET f == stack[w][k] IN
        f.why = "failed" =>
            /\ f.pc = "ret"
            /\ future[w].st = "running"
            /\ f.reqs = [n \in 1..Len(f.reqs) |-> n]
            /\ Len(f.resps) = Len(f.reqs) - 1
            /\ f.ret = IdsOf(f.resps)
            /\ f.subs = <<>>
            /\ Len(f.reqs) = 1 => f.ret = <<>>

\* Page 2 fails after page 1 gave an identifier.
C7_Witness ==
    \E w \in DOMAIN stack :
        /\ Len(stack[w]) >= 1
        /\ Top(w).why = "failed"
        /\ Top(w).reqs = <<1, 2>>
        /\ Top(w).ret = <<1>>

\* C8: a call whose responses never fail and never carry the indicator
\* requests pages 1, 2, ... in order, once each, up to the first page k with
\* k >= total_pages (total_pages itself when every response reports the same
\* one), performs no bisection and returns every page's identifiers in page
\* order; a response without total_pages is the last one.
C8_PagesInOrder ==
    \A w \in DOMAIN stack : \A k \in 1..Len(stack[w]) :
        LET f == stack[w][k] IN
        /\ f.why \in {"none", "last_page"} =>
              /\ f.reqs = [n \in 1..Len(f.reqs) |-> n]
              /\ Len(f.resps) = Len(f.reqs)
              /\ f.subs = <<>>
              /\ f.movie_ids = IdsOf(f.resps)
              /\ \A n \in 1..Len(f.resps) :
                    (f.resps[n].total_pages = Absent \/ f.resps[n].total_pages <= n)
                        <=> (f.why = "last_page" /\ n = Len(f.resps))
        /\ f.why = "last_page" =>
              /\ f.pc = "ret"
              /\ f.ret = IdsOf(f.resps)
              /\ \A T \in 1..Len(f.resps) + 1 :
                    (\A n \in 1..Len(f.resps) : f.resps[n].total_pages = T)
                        => Len(f.reqs) = T

\* Two pages with total_pages = 2, one identifier each: both are returned in
\* page order.
C8_Witness ==
    \E w \in DOMAIN stack :
        /\ Len(stack[w]) = 1
        /\ Top(w).why = "last_page"
        /\ Top(w).reqs = <<1, 2>>
        /\ \A n \in 1..2 : Top(w).resps[n].total_pages = 2
        /\ Top(w).ret = <<1, 2>>

\* One call of fetch_movie_ids on a window for which the API reports one
\* page more than the script's threshold and never sends total_ranges (the
\* discovery endpoint documents page, results, total_pages, total_results).
InitPaging ==
    /\ FetchCall
    /\ api = [NoApi EXCEPT !.tps = {Absent, Threshold + 1},
                           !.trs = {Absent},
                           !.results = {"ok", "noid"},
                           !.depth = 0]

NextPaging ==
    \/ \E w \in DOMAIN stack : PageFails(w) /\ UNCHANGED <<variant, api, iovars, dvars, ovars, rvars>>
    \/ \E w \in DOMAIN stack : PageRaises(w) /\ UNCHANGED <<variant, api, iovars, dvars, ovars, rvars>>
    \/ \E w \in DOMAIN stack : PageResults(w) /\ UNCHANGED <<variant, api, iovars, dvars, ovars, rvars>>
    \/ \E w \in DOMAIN stack : Return(w) /\ UNCHANGED <<variant, api, iovars, dvars, ovars, rvars>>

SpecPaging == InitPaging /\ [][NextPaging]_vars

\* C9: no single call of fetch_movie_ids requests more pages for its window
\* than the script's threshold (1000 or 500): a window that needs that many
\* pages is bisected first.
C9_PagesWithinThreshold ==
    \A w \in DOMAIN stack : \A k \in 1..Len(stack[w]) :
        /\ Len(stack[w][k].reqs) <= Threshold
        /\ stack[w][k].page <= Threshold

(***************************************************************************)
(* get_all_id                                                              *)
(***************************************************************************)
\* get_all_id(years, chunk_size, max_workers) at its first line, about to
\* run generate_date_range(years, chunk_size).
InitIds ==
    /\ variant \in {"movie", "module"}
    /\ api = [NoApi EXCEPT !.tps = {Absent, 2},
                           !.trs = {Absent, Threshold},
                           !.results = {"ok", "noid"},
                           !.depth = 1]
    /\ \E y \in 1..MaxSpanYears, c \in {1, DefaultChunk} : GdrEntry(y, c)
    /\ IdleFetch /\ IdleReviews
    /\ IdleIO
    /\ max_workers \in 1..MaxPool
    /\ movie_ids = <<>>
    /\ opc = "start"
    /\ done_order = <<>>

\* executor.submit(fetch_movie_ids, start, end) for every window
SubmitAll ==
    /\ gpc = "done"
    /\ opc = "start"
    /\ future = <<>>
    /\ future' = [w \in 1..Len(date_ranges) |-> [st |-> "queued", val |-> <<>>]]
    /\ stack' = [w \in 1..Len(date_ranges) |-> <<>>]
    /\ opc' = "collect"
    /\ UNCHANGED <<max_workers, movie_ids, done_order>>

\* A pool thread takes the oldest queued window and enters fetch_movie_ids.
WorkerStart(w) ==
    /\ future[w].st = "queued"
    /\ \A v \in 1..(w - 1) : future[v].st # "queued"
    /\ Cardinality({v \in DOMAIN future : future[v].st = "running"}) < max_workers
    /\ future' = [future EXCEPT ![w].st = "running"]
    /\ stack' = [stack EXCEPT ![w] = <<NewFrame(date_ranges[w][1], date_ranges[w][2])>>]
    /\ UNCHANGED ovars

Collected(w) == \E n \in 1..Len(done_order) : done_order[n] = w

\* movie_ids.extend(future.result()) for a future that holds a result
CollectResult(w) ==
    /\ opc = "collect"
    /\ future[w].st = "returned"
    /\ ~Collected(w)
    /\ movie_ids' = movie_ids \o future[w].val
    /\ done_order' = Append(done_order, w)
    /\ UNCHANGED <<max_workers, opc, stack, future>>

\* future.result() re-raises the worker's exception: fetch_movie_ids.py
\* prints it and goes on; fetch_module_ids.py has no handler, the exception
\* leaves the loop and get_all_id.
CollectException(w) ==
    /\ opc = "collect"
    /\ future[w].st = "raised"
    /\ ~Collected(w)
    /\ IF variant = "movie"
       THEN /\ done_order' = Append(done_order, w)
            /\ UNCHANGED opc
       ELSE /\ opc' = "raised"
            /\ UNCHANGED done_order
    /\ UNCHANGED <<max_workers, movie_ids, stack, future>>

\* as_completed is exhausted: return movie_ids
ReturnIds ==
    /\ opc = "collect"
    /\ \A w \in DOMAIN future : Collected(w)
    /\ opc' = "returned"
    /\ UNCHANGED <<max_workers, movie_ids, done_order, stack, future>>

NextIds ==
    \/ GdrIterate /\ UNCHANGED <<variant, api, iovars, fvars, ovars, rvars>>
    \/ GdrReturn /\ UNCHANGED <<variant, api, iovars, fvars, ovars, rvars>>
    \/ SubmitAll /\ UNCHANGED <<variant, api, iovars, dvars, rvars>>
    \/ \E w \in DOMAIN future : WorkerStart(w) /\ UNCHANGED <<variant, api, iovars, dvars, rvars>>
    \/ \E w \in DOMAIN stack : PageFails(w) /\ UNCHANGED <<variant, api, iovars, dvars, ovars, rvars>>
    \/ \E w \in DOMAIN stack : PageRaises(w) /\ UNCHANGED <<variant, api, iovars, dvars, ovars, rvars>>
    \/ \E w \in DOMAIN stack : PageOversized(w) /\ UNCHANGED <<variant, api, iovars, dvars, ovars, rvars>>
    \/ \E w \in DOMAIN stack : PageResults(w) /\ UNCHANGED <<variant, api, iovars, dvars, ovars, rvars>>
    \/ \E w \in DOMAIN stack : Return(w) /\ UNCHANGED <<variant, api, iovars, dvars, ovars, rvars>>
    \/ \E w \in DOMAIN future : CollectResult(w) /\ UNCHANGED <<variant, api, iovars, dvars, rvars>>
    \/ \E w \in DOMAIN future : CollectException(w) /\ UNCHANGED <<variant, api, iovars, dvars, rvars>>
    \/ ReturnIds /\ UNCHANGED <<variant, api, iovars, dvars, rvars>>

SpecIds == InitIds /\ [][NextIds]_vars

RECURSIVE ResultsInOrder(_)
\* the results of the collected futures that returned, in collection order
ResultsInOrder(order) ==
    IF order = <<>> THEN <<>>
    ELSE (IF future[order[1]].st = "returned" THEN future[order[1]].val ELSE <<>>)
         \o ResultsInOrder(Tail(order))

\* C2: a work item whose worker raised never aborts the batch: the
\* orchestrator still returns, the failed item contributes the safe default
\* (nothing for a window, the placeholder for an identifier) and the results
\* of all other items are kept.
C2_FailedItemNeverAborts ==
    /\ opc # "raised"
    /\ opc = "returned" =>
          /\ \A w \in DOMAIN future : Collected(w)
          /\ movie_ids = ResultsInOrder(done_order)
    /\ rpc = "done" =>
          \A i \in DOMAIN rw :
              rw[i].pc = "raised" => reviews_map[id_list[i]] = Placeholder

InitDates ==
    /\ variant \in {"movie", "module"}
    /\ api = NoApi
    /\ \E y \in 1..MaxYears, c \in 1..MaxChunk : GdrEntry(y, c)
    /\ IdleFetch /\ IdleOrch /\ IdleReviews
    /\ IdleIO

NextDates ==
    \/ GdrIterate /\ UNCHANGED <<variant, api, iovars, fvars, ovars, rvars>>
    \/ GdrReturn /\ UNCHANGED <<variant, api, iovars, fvars, ovars, rvars>>

SpecDates == InitDates /\ [][NextDates]_vars

\* C10: generate_date_range returns windows walking backward: the first ends
\* at today, each later window ends exactly where the previous one starts,
\* and the oldest window starts at or before today - years*365 days, so the
\* windows cover [today - years*365, today] without a gap.
C10_WindowsCoverSpan ==
    gpc = "done" =>
        /\ Len(date_ranges) >= 1
        /\ date_ranges[1][2] = Today
        /\ \A i \in 2..Len(date_ranges) : date_ranges[i][2] = date_ranges[i-1][1]
        /\ \A i \in 1..Len(date_ranges) : date_ranges[i][1] < date_ranges[i][2]
        /\ date_ranges[Len(date_ranges)][1] <= Today - years * DaysPerYear
        /\ \A d \in {Today - years * DaysPerYear, Today - years * DaysPerYear + 1,
                     Today - DaysPerYear, Today - 1, Today} :
              \E i \in 1..Len(date_ranges) :
                  date_ranges[i][1] <= d /\ d <= date_ranges[i][2]

\* A call with several windows whose last window walks past the cutoff.
C10_Witness ==
    /\ gpc = "done"
    /\ Len(date_ranges) >= 3
    /\ date_ranges[Len(date_ranges)][1] < cutoff_date

(***************************************************************************)
(* Order of completion                                                     *)
(***************************************************************************)
RECURSIVE Count(_, _)
\* the number of times x occurs in the list s
Count(s, x) ==
    IF s = <<>> THEN 0 ELSE (IF s[1] = x THEN 1 ELSE 0) + Count(Tail(s), x)

RECURSIVE CountInResults(_, _)
\* the number of times x occurs in the results of the futures 1..n
CountInResults(n, x) ==
    IF n = 0 THEN 0 ELSE Count(future[n].val, x) + CountInResults(n - 1, x)

Elems(s) == {s[k] : k \in DOMAIN s}

\* C11: the aggregate does not depend on the order in which the completed
\* futures are collected.  get_all_id returns the multiset sum of the
\* windows' results.  For get_reviews_map, whichever of two completed
\* futures is collected last decides the entry of their identifier, so the
\* mapping is the same in every order only if two completed calls for one
\* identifier always hold the same list, and a list already stored for an
\* identifier equals the list of every completed call still to be collected
\* for it.
C11_OrderIndependent ==
    /\ opc = "returned" =>
          \A x \in Elems(movie_ids) \cup UNION {Elems(future[w].val) : w \in DOMAIN future} :
              Count(movie_ids, x) = CountInResults(Len(future), x)
    /\ \A i, j \in DOMAIN rw :
          (i # j /\ id_list[i] = id_list[j] /\ rw[j].pc = "returned" /\ ~rw[j].taken) =>
              /\ (rw[i].pc = "returned" /\ ~rw[i].taken) => rw[i].result = rw[j].result
              /\ rw[i].taken => reviews_map[id_list[i]] = rw[j].result

(***************************************************************************)
(* save_reviews_to_csv                                                     *)
(***************************************************************************)
MaxSaveLen == 2      \* a review list of the map has 1..MaxSaveLen reviews

\* reviews as fetch_reviews emits them
SavedReviews ==
    {[content |-> NA, rating |-> NA], [content |-> "good", rating |-> "7"],
     [content |-> "good", rating |-> NA]}

\* the maps get_reviews_map can return: some identifiers, each with a
\* non-empty list of reviews
ReviewsMaps ==
    UNION {[D -> SeqsUpTo(SavedReviews, MaxSaveLen) \ {<<>>}] :
              D \in SUBSET (1..MaxMovieId)}

\* save_reviews_to_csv(reviews_map) is about to run (line 128); ../data may
\* or may not exist.
InitSave ==
    /\ variant = "reviews"
    /\ api = NoApi
    /\ \E y \in {1} : GdrEntry(y, 1)
    /\ IdleFetch /\ IdleOrch
    /\ id_list = <<>> /\ retries = 0 /\ backoff = 0 /\ rw = <<>>
    /\ reviews_map \in ReviewsMaps
    /\ rpc = "done"
    /\ id_file = NoFile
    /\ data_dir \in BOOLEAN
    /\ csv_file = NoFile
    /\ wpc = "idle"
    /\ spc = "start"

\* lines 99-103: os.makedirs('../data') when the directory does not exist
SaveEnsureDir ==
    /\ spc = "start"
    /\ data_dir' = TRUE
    /\ spc' = "join"
    /\ UNCHANGED <<id_file, csv_file, wpc>>

\* line 105: file_path = os.join(directory, filename).  The module os has no
\* attribute join (the function is os.path.join): the lookup raises
\* AttributeError, nothing catches it, and lines 107-119 never run.
SaveJoinPath ==
    /\ spc = "join"
    /\ spc' = "raised"
    /\ UNCHANGED <<id_file, data_dir, csv_file, wpc>>

NextSave ==
    \/ SaveEnsureDir /\ UNCHANGED <<variant, api, dvars, fvars, ovars, rvars>>
    \/ SaveJoinPath /\ UNCHANGED <<variant, api, dvars, fvars, ovars, rvars>>

SpecSave == InitSave /\ [][NextSave]_vars

RECURSIVE TotalReviews(_, _)
\* the sum of the lengths of the lists of the identifiers in ids
TotalReviews(m, ids) ==
    IF ids = {} THEN 0
    ELSE LET k == CHOOSE x \in ids : TRUE
         IN  Len(m[k]) + TotalReviews(m, ids \ {k})

\* C12: save_reviews_to_csv never raises, and once it has run the directory
\* exists and the table holds one row (movie_id, review, rating) per review
\* of every identifier of the map: as many rows as the lists have reviews,
\* and the row ("NA", "NA") for an identifier with only the placeholder.
C12_SaveWritesEveryReview ==
    /\ spc # "raised"
    /\ spc \notin {"idle", "start"} => data_dir
    /\ spc = "saved" =>
          /\ csv_file.exists
          /\ Len(csv_file.rows) = TotalReviews(reviews_map, DOMAIN reviews_map)
          /\ \A id \in DOMAIN reviews_map : \A k \in 1..Len(reviews_map[id]) :
                \E n \in 1..Len(csv_file.rows) :
                    csv_file.rows[n] = [movie_id |-> id,
                                        review |-> reviews_map[id][k].content,
                                        rating |-> reviews_map[id][k].rating]

(***************************************************************************)
(* write_movie_ids / read_movie_ids                                        *)
(***************************************************************************)
MaxFileLen == 3      \* the list written has 0..MaxFileLen identifiers
MaxFileId  == 10     \* its identifiers are -1..MaxFileId

Newline == "\n"
DigitChars == <<"0", "1", "2", "3", "4", "5", "6", "7", "8", "9">>

RECURSIVE Str(_)
\* str(n) of an int: its decimal digits, after a minus sign when negative
Str(n) ==
    IF n < 0 THEN <<"-">> \o Str(0 - n)
    ELSE IF n < 10 THEN <<DigitChars[n + 1]>>
    ELSE Append(Str(n \div 10), DigitChars[(n % 10) + 1])

RECURSIVE StrJoin(_, _)
\* sep.join(strs)
StrJoin(strs, sep) ==
    IF strs = <<>> THEN <<>>
    ELSE IF Len(strs) = 1 THEN strs[1]
    ELSE strs[1] \o sep \o StrJoin(Tail(strs), sep)

\* The identifiers written one after the other (not what the code does).
FileTextNoSeparator(ids) ==
    StrJoin([k \in 1..Len(ids) |-> Str(ids[k])], <<>>)

\* "\n".join(map(str, movie_ids))
FileText(ids) ==
    StrJoin([k \in 1..Len(ids) |-> Str(ids[k])], <<Newline>>)

\* with open('movie_id.txt', 'w') as f: f.write(...): the file is created or
\* truncated, then holds the text
WriteMovieIds ==
    /\ wpc = "write"
    /\ id_file' = [NoFile EXCEPT !.exists = TRUE, !.text = FileText(movie_ids)]
    /\ wpc' = "written"
    /\ UNCHANGED <<data_dir, csv_file, spc>>

RECURSIVE FileLines(_)
\* `for line in f`: every line ends with its newline, the last one may not
FileLines(text) ==
    IF text = <<>> THEN <<>>
    ELSE LET nl == {k \in 1..Len(text) : text[k] = Newline}
             cut == IF nl = {} THEN Len(text)
                    ELSE CHOOSE k \in nl : \A j \in nl : k <= j
         IN  <<SubSeq(text, 1, cut)>> \o FileLines(SubSeq(text, cut + 1, Len(text)))

IsSpace(c) == c \in {Newline, " "}

RECURSIVE Strip(_)
\* line.strip()
Strip(line) ==
    IF line = <<>> THEN <<>>
    ELSE IF IsSpace(line[1]) THEN Strip(Tail(line))
    ELSE IF IsSpace(line[Len(line)]) THEN Strip(SubSeq(line, 1, Len(line) - 1))
    ELSE line

IsDigit(c) == \E d \in 1..10 : DigitChars[d] = c
DigitValue(c) == (CHOOSE d \in 1..10 : DigitChars[d] = c) - 1

\* whether int(chars) accepts the text: an optional minus sign, then digits
IsIntText(chars) ==
    LET digits == IF chars # <<>> /\ chars[1] = "-" THEN Tail(chars) ELSE chars
    IN  digits # <<>> /\ \A k \in 1..Len(digits) : IsDigit(digits[k])

RECURSIVE ParseDigits(_)
ParseDigits(chars) ==
    IF chars = <<>> THEN 0
    ELSE ParseDigits(SubSeq(chars, 1, Len(chars) - 1)) * 10
         + DigitValue(chars[Len(chars)])

\* int(chars)
ParseInt(chars) ==
    IF chars[1] = "-" THEN 0 - ParseDigits(Tail(chars)) ELSE ParseDigits(chars)

\* [int(line.strip()) for line in f if line.strip()]; int raises ValueError
\* on a line that is no integer
ReadMovieIds ==
    /\ wpc = "written"
    /\ id_file.exists
    /\ LET kept == SelectSeq(FileLines(id_file.text), LAMBDA l : Strip(l) # <<>>)
       IN  IF \A k \in 1..Len(kept) : IsIntText(Strip(kept[k]))
           THEN /\ id_list' = [k \in 1..Len(kept) |-> ParseInt(Strip(kept[k]))]
                /\ wpc' = "read"
           ELSE /\ wpc' = "raised"
                /\ UNCHANGED id_list
    /\ UNCHANGED <<retries, backoff, rw, reviews_map, rpc, id_file, data_dir, csv_file, spc>>

\* get_all_id has returned movie_ids and write_movie_ids(movie_ids) is about
\* to run; movie_id.txt may be left over from an earlier run.
InitIdFile ==
    /\ variant \in {"movie", "module"}
    /\ api = NoApi
    /\ \E y \in {1} : GdrEntry(y, 1)
    /\ IdleFetch /\ IdleReviews
    /\ max_workers = 0
    /\ movie_ids \in SeqsUpTo((0 - 1)..MaxFileId, MaxFileLen)
    /\ opc = "returned"
    /\ done_order = <<>>
    /\ id_file \in {NoFile, [NoFile EXCEPT !.exists = TRUE, !.text = <<"7", Newline>>]}
    /\ data_dir = FALSE
    /\ csv_file = NoFile
    /\ wpc = "write"
    /\ spc = "idle"

NextIdFile ==
    \/ WriteMovieIds /\ UNCHANGED <<variant, api, dvars, fvars, ovars, rvars>>
    \/ ReadMovieIds /\ UNCHANGED <<variant, api, dvars, fvars, ovars>>

SpecIdFile == InitIdFile /\ [][NextIdFile]_vars

\* C13: write_movie_ids(L) never fails and read_movie_ids on the file it
\* wrote returns exactly L (same identifiers, order and multiplicities); for
\* the empty list the file is zero-length.
C13_FileRoundTrip ==
    /\ wpc # "raised"
    /\ wpc \in {"written", "read"} =>
          /\ id_file.exists
          /\ movie_ids = <<>> <=> id_file.text = <<>>
    /\ wpc = "read" => id_list = movie_ids

\* A list with a repeated two-digit identifier and a one-digit one went
\* through the file.
C13_Witness ==
    /\ wpc = "read"
    /\ movie_ids = <<10, 3, 10>>
    /\ id_file.text = <<"1", "0", Newline, "3", Newline, "1", "0">>
    /\ id_list = <<10, 3, 10>>

(***************************************************************************)
(* fetch_reviews on every shape of a 200 response                          *)
(***************************************************************************)
MaxReviews == 2      \* a 200 response lists 0..MaxReviews reviews

\* every body over the review objects of ApiReviews, a body without the
\* results key and one whose results is null
ShapeBodies ==
    {[results |-> "list", items |-> s] : s \in SeqsUpTo(ApiReviews, MaxReviews)}
    \cup {[results |-> Missing, items |-> <<>>], [results |-> Null, items |-> <<>>]}

\* One call fetch_reviews(movie_id) with its default arguments.
InitShapes ==
    /\ variant = "reviews"
    /\ api = [NoApi EXCEPT !.bodies = ShapeBodies, !.history = TRUE]
    /\ \E y \in {1} : GdrEntry(y, 1)
    /\ IdleIO
    /\ IdleFetch /\ IdleOrch
    /\ id_list \in {<<m>> : m \in 1..MaxMovieId}
    /\ retries = DefaultRetries
    /\ backoff = DefaultBackoff
    /\ rw = <<NewReviewCall("running")>>
    /\ reviews_map = <<>>
    /\ rpc = "idle"

SpecShapes == InitShapes /\ [][NextReviewCall]_vars

\* C14: when the 200 response of a call lists n >= 1 reviews, the call
\* returns exactly n reviews in the response's order; a review without
\* rating (or without author_details) gets rating "NA", a review without
\* content gets content "NA", every other value is the API's.
C14_ReviewsMapped ==
    \A i \in DOMAIN rw :
        LET items == rw[i].body.items IN
        (rw[i].body.results = "list" /\ Len(items) >= 1) =>
            /\ rw[i].pc = "returned"
            /\ Len(rw[i].result) = Len(items)
            /\ \A k \in 1..Len(items) :
                  /\ rw[i].result[k].content =
                        (IF items[k].content = Missing THEN NA ELSE items[k].content)
                  /\ rw[i].result[k].rating =
                        (IF items[k].ad = Missing \/ items[k].rating = Missing
                         THEN NA ELSE items[k].rating)

\* C15: every review a call of fetch_reviews returns has a content that is
\* text or "NA" and a rating that is a number or "NA", whatever the shape of
\* the response: no null and no absent value reaches the output.
C15_NoNullEmitted ==
    \A i \in DOMAIN rw :
        rw[i].pc = "returned" =>
            \A k \in 1..Len(rw[i].result) :
                /\ rw[i].result[k].content \in Texts \cup {NA}
                /\ rw[i].result[k].rating \in Ratings \cup {NA}

(***************************************************************************)
(* Who writes the aggregate                                                *)
(***************************************************************************)
\* the step is one iteration of get_all_id's loop over as_completed: it adds
\* the result of one completed window and no worker moves with it
IdsCollectStep ==
    /\ opc = "collect"
    /\ stack' = stack /\ future' = future
    /\ \E w \in DOMAIN future :
          /\ future[w].st = "returned" /\ ~Collected(w)
          /\ done_order' = Append(done_order, w)
          /\ movie_ids' = movie_ids \o future[w].val

\* the step is one iteration of get_reviews_map's loop over as_completed: it
\* stores the result of one completed call and no worker moves with it
ReviewsCollectStep ==
    /\ rpc = "collect"
    /\ \E i \in DOMAIN rw :
          /\ rw[i].pc = "returned" /\ ~rw[i].taken
          /\ rw'[i].taken
          /\ \A j \in DOMAIN rw : j # i => rw'[j] = rw[j]
          /\ DOMAIN reviews_map' = DOMAIN reviews_map \cup {id_list[i]}
          /\ reviews_map'[id_list[i]] = rw[i].result

\* C16: the aggregate (movie_ids of get_all_id, reviews_map of
\* get_reviews_map) changes only in a step of the orchestrator's loop over
\* the completed futures, never in a worker's step and never together with
\* one, and no result that a completed item put into the aggregate is lost:
\* the identifiers collected so far stay a prefix of movie_ids and a list
\* stored in reviews_map stays stored.
C16_OnlyOrchestratorWrites ==
    [][/\ movie_ids' # movie_ids => IdsCollectStep
       /\ reviews_map' # reviews_map => ReviewsCollectStep
       /\ Len(movie_ids') >= Len(movie_ids)
       /\ SubSeq(movie_ids', 1, Len(movie_ids)) = movie_ids
       /\ \A k \in DOMAIN reviews_map :
             k \in DOMAIN reviews_map' /\ reviews_map'[k] = reviews_map[k]]_vars

(***************************************************************************)
(* Depth of the bisection                                                  *)
(***************************************************************************)
\* One call of fetch_movie_ids on the newest window of generate_date_range,
\* for a chunk of one year or the script's default; the API may report the
\* indicator for a window and for its sub-windows again.
InitRecursion ==
    /\ variant \in {"movie", "module"}
    /\ \E y \in {1} : GdrEntry(y, 1)
    /\ IdleIO
    /\ IdleOrch /\ IdleReviews
    /\ \E c \in {1, DefaultChunk} :
          stack = <<<<NewFrame(ChunkStart(Today, c), Today)>>>>
    /\ future = <<[st |-> "running", val |-> <<>>]>>
    /\ api = [NoApi EXCEPT !.tps = {Absent, 1},
                           !.trs = {Absent, Threshold},
                           !.results = {"ok", "noid"},
                           !.depth = MaxDepth + 1]

SpecRecursion == InitRecursion /\ [][NextFetch]_vars

\* the window of the k-th call on the stack of worker w
WindowOf(w, k) == <<stack[w][k].start, stack[w][k].end>>

\* C17: every call of fetch_movie_ids returns: the bisection reaches windows
\* that are fetched without further splitting.  A call nested in a call on
\* the same window would put the same requests to the API as its caller and
\* split again, without end; so no window appears twice on a call stack, and
\* every nested call has a window shorter than its caller's.
C17_BisectionReachesLeaves ==
    \A w \in DOMAIN stack : \A j, k \in 1..Len(stack[w]) :
        j < k =>
            /\ WindowOf(w, k) # WindowOf(w, j)
            /\ WindowOf(w, k)[2] - WindowOf(w, k)[1] < WindowOf(w, j)[2] - WindowOf(w, j)[1]

\* C18: generate_date_range does not clamp at the cutoff: every window it
\* returns, the oldest included, spans exactly chunk*365 days, there are
\* ceil(years/chunk) windows, and the oldest window starts at or before
\* today - years*365 days and less than chunk*365 days before it.
C18_NoClamp ==
    gpc = "done" =>
        LET n == Len(date_ranges)
            cutoff == Today - years * 365
        IN  /\ \A i \in 1..n : date_ranges[i][2] - date_ranges[i][1] = chunk_size * 365
            /\ n = (years + chunk_size - 1) \div chunk_size
            /\ n >= 1
            /\ date_ranges[n][1] <= cutoff
            /\ cutoff - date_ranges[n][1] < chunk_size * 365

\* years = 5, chunk = 2: three windows of 730 days, the oldest starts 365
\* days before the cutoff.
C18_Witness ==
    /\ gpc = "done"
    /\ years = 5 /\ chunk_size = 2
    /\ Len(date_ranges) = 3
    /\ date_ranges[3] = <<Today - 2190, Today - 1460>>
    /\ date_ranges[3][1] = cutoff_date - 365

\* C19: a bisection never leaves the window it splits: the sub-windows
\* (start, start+365) and (start+365, end) of every call that splits, at any
\* depth, have start <= end, lie inside the call's window, meet in exactly
\* the boundary date and cover the window from its start to its end.
C19_SubWindowsInsideParent ==
    \A w \in DOMAIN stack : \A k \in 1..Len(stack[w]) :
        LET f == stack[w][k] IN
        f.why = "split" =>
            /\ \A n \in 1..Len(f.subs) :
                  /\ f.subs[n][1] <= f.subs[n][2]
                  /\ f.start <= f.subs[n][1]
                  /\ f.subs[n][2] <= f.end
            /\ f.subs[1][1] = f.start
            /\ Len(f.subs) = 2 =>
                  /\ f.subs[1][2] = f.subs[2][1]
                  /\ f.subs[2][2] = f.end

====
